---- MODULE Spec2Model ----
(***************************************************************************)
(* Model of linux-loader's src/loader/mod.rs: the command-line writer      *)
(* load_cmdline, the kernel-loader Error type with its conversions, and    *)
(* the KernelLoader::load contract.                                        *)
(*                                                                         *)
(* Guest addresses are unsigned integers of AddrBits bits (u64 in the      *)
(* source); guest memory is a list of mapped regions over that address     *)
(* space, as built by GuestMemoryMmap::from_ranges.                        *)
(***************************************************************************)
EXTENDS Integers, Sequences, FiniteSets, TLC

\* ------------------------------------------------------------------ bounds
\* Width of a guest address (GuestAddress wraps a u64 in the source).
AddrBits == 4
\* Longest command line, in bytes.
MaxLen == 3

RECURSIVE Pow2(_)
Pow2(n) == IF n = 0 THEN 1 ELSE 2 * Pow2(n - 1)

NumAddrs == Pow2(AddrBits)
MaxAddr == NumAddrs - 1
Addrs == 0..MaxAddr
\* Byte values: 0 is '\0'; the command-line characters are the non-null ones.
Bytes == {0, 1, 2}
Chars == Bytes \ {0}

RECURSIVE SeqsUpTo(_, _)
SeqsUpTo(S, n) ==
    IF n = 0 THEN {<<>>}
    ELSE LET shorter == SeqsUpTo(S, n - 1)
         IN shorter \cup {Append(s, c) : s \in {t \in shorter : Len(t) = n - 1}, c \in S}

\* The strings a Cmdline carrier can hold: no interior null byte.
Cmdlines == SeqsUpTo(Chars, MaxLen)

Min(a, b) == IF a < b THEN a ELSE b

\* Option::None of an address-valued Option.
None == -1

VARIABLES
    regions,      \* guest_mem: the mapped regions, sorted, non-overlapping
    mem,          \* guest_mem: the byte held at every address (unmapped: 0, never written)
    mem_before,   \* guest memory as it was when the running call started
    guest_addr,   \* load_cmdline argument
    cmdline,      \* load_cmdline argument: cmdline.as_str().as_bytes()
    pc,           \* position inside load_cmdline
    end,          \* local `end` of load_cmdline (None before it is computed)
    result,       \* value returned by load_cmdline
    steps,        \* the steps of load_cmdline executed so far in this call
    arch,         \* target architecture the crate is compiled for
    sub,          \* the format sub-error last handed to From::from
    err,          \* the top-level Error last produced
    wrapped,      \* every (sub-error, converted Error) pair produced so far
    variant,      \* the format variant whose load is called
    lpc,          \* position inside KernelLoader::load
    image,        \* load argument: the kernel image
    kernel_offset,         \* load argument
    highmem_start_address, \* load argument
    placement,    \* load: the computed load address (None before it is computed)
    lresult       \* value returned by load

cmdvars == <<guest_addr, cmdline, pc, end, result, steps>>
memvars == <<regions, mem, mem_before>>
errvars == <<arch, sub, err, wrapped>>
loadvars == <<variant, lpc, image, kernel_offset, highmem_start_address, placement, lresult>>
vars == <<regions, mem, mem_before, guest_addr, cmdline, pc, end, result, steps,
          arch, sub, err, wrapped,
          variant, lpc, image, kernel_offset, highmem_start_address, placement, lresult>>

\* ------------------------------------------------------------ guest memory
Region(s, n) == [start |-> s, size |-> n]

\* Guest memory layouts: one region from address 0 (of several sizes; a
\* region's size is a usize, so it is at most MaxAddr), a region reaching the
\* top of the address space, two adjacent regions, regions with an unmapped
\* hole between them, and a region that starts above 0.
Layouts ==
    { <<Region(0, NumAddrs - 1)>>,
      <<Region(1, NumAddrs - 1)>>,
      <<Region(0, NumAddrs \div 2)>>,
      <<Region(0, 6)>>,
      <<Region(0, 3), Region(3, 4)>>,
      <<Region(0, 3), Region(5, 4)>>,
      <<Region(0, 2), Region(3, 1), Region(6, 4)>>,
      <<Region(2, 6)>> }

Contains(r, a) == r.start <= a /\ a < r.start + r.size

IsMapped(regs, a) == \E i \in 1..Len(regs) : Contains(regs[i], a)

\* GuestMemory::find_region: index of the region holding addr, 0 for None.
find_region(regs, a) ==
    IF IsMapped(regs, a)
    THEN CHOOSE i \in 1..Len(regs) : Contains(regs[i], a)
    ELSE 0

RECURSIVE MaxLast(_, _)
MaxLast(regs, i) ==
    IF i = 0 THEN 0
    ELSE LET l == regs[i].start + regs[i].size - 1
             m == MaxLast(regs, i - 1)
         IN IF l > m THEN l ELSE m

\* GuestMemory::last_addr: the highest valid (inclusive) address.
last_addr(regs) == MaxLast(regs, Len(regs))

\* GuestMemory::try_access driving Bytes::write of a region: copy as much of
\* buf as the region holding cur takes, then go on in the region that
\* follows; stop at the first unmapped address.
RECURSIVE try_access(_, _, _, _, _)
try_access(regs, m, buf, cur, total) ==
    LET i == find_region(regs, cur)
    IN IF i = 0 THEN [total |-> total, mem |-> m]
       ELSE LET start == cur - regs[i].start
                cap == regs[i].size - start
                n == Min(cap, Len(buf) - total)
                m2 == [a \in DOMAIN m |->
                          IF cur <= a /\ a < cur + n
                          THEN buf[total + (a - cur) + 1]
                          ELSE m[a]]
            IN IF n = 0 THEN [total |-> total, mem |-> m]
               ELSE IF total + n = Len(buf) THEN [total |-> total + n, mem |-> m2]
               ELSE try_access(regs, m2, buf, (cur + n) % NumAddrs, total + n)

\* Bytes::write for GuestMemory: Err(InvalidGuestAddress) when nothing at all
\* could be accessed, else Ok(number of bytes written).
write(regs, m, buf, addr) ==
    LET r == try_access(regs, m, buf, addr, 0)
    IN [ok |-> r.total > 0 \/ (Len(buf) = 0 /\ IsMapped(regs, addr)),
        total |-> r.total,
        mem |-> r.mem]

\* Bytes::read_slice / read_obj as the tests use them: the n bytes at addr,
\* Err when any of them is unmapped.
read_slice(regs, m, addr, n) ==
    IF \A k \in 0..(n - 1) : addr + k <= MaxAddr /\ IsMapped(regs, addr + k)
    THEN [ok |-> TRUE, bytes |-> [k \in 1..n |-> m[addr + k - 1]]]
    ELSE [ok |-> FALSE, bytes |-> <<>>]

\* A write that reports success as soon as some byte was written.
write_slice_partial(regs, m, buf, addr) ==
    LET w == write(regs, m, buf, addr)
    IN [ok |-> w.ok, mem |-> w.mem]

\* Bytes::write_slice: Err(PartialBuffer) unless the whole of buf was written.
write_slice(regs, m, buf, addr) ==
    LET w == write(regs, m, buf, addr)
    IN [ok |-> w.ok /\ w.total = Len(buf), mem |-> w.mem]

\* An addition that wraps modulo the address width.
wrapping_add(a, n) == (a + n) % NumAddrs

\* Address::checked_add: None when the sum does not fit the address type.
checked_add(a, n) == IF a + n > MaxAddr THEN None ELSE a + n

\* A bound check that lets an end one past the highest address through.
EndExceedsLoose(e, regs) == e > last_addr(regs) + 1

\* The comparison of line 223.
EndExceeds(e, regs) == e > last_addr(regs)

\* ------------------------------------------------------------------ Error
\* Number of distinct values of each format's sub-error type.
MaxSubErr == 3
SubKinds == 1..MaxSubErr

Archs == {"x86_64", "aarch64"}

\* The cfg attributes of lines 48-57: the format variants compiled in.
Formats(a) == IF a = "x86_64" THEN {"bzimage", "elf"} ELSE {"pe"}

GenericTags ==
    {"CommandLineCopy", "CommandLineOverflow", "InvalidKernelStartAddress", "MemoryOverflow"}

\* A generic variant of enum Error (lines 59-66).
Generic(t) == [tag |-> t]

\* A value of elf::Error, bzimage::Error or pe::Error.
SubError(f, k) == [format |-> f, kind |-> k]

\* Option::None of source(), and the absence of an error.
NoSource == [format |-> "none", kind |-> 0]
NoError == [tag |-> "none"]
NoResult == [ok |-> FALSE, error |-> NoError]

\* impl From<elf::Error> for Error (lines 112-117)
from_elf(e) == [tag |-> "Elf", inner |-> e]

\* A bzimage conversion that builds the Elf variant.
from_bzimage_as_elf(e) == [tag |-> "Elf", inner |-> e]

\* impl From<bzimage::Error> for Error (lines 119-124)
from_bzimage(e) == [tag |-> "Bzimage", inner |-> e]

\* impl From<pe::Error> for Error (lines 126-131)
from_pe(e) == [tag |-> "Pe", inner |-> e]

\* Error::from, selected by the type of the sub-error.
from(s) ==
    CASE s.format = "elf" -> from_elf(s.kind)
      [] s.format = "bzimage" -> from_bzimage(s.kind)
      [] s.format = "pe" -> from_pe(s.kind)

\* Error::source (lines 94-110)
source(e) ==
    CASE e.tag = "Bzimage" -> SubError("bzimage", e.inner)
      [] e.tag = "Elf" -> SubError("elf", e.inner)
      [] e.tag = "Pe" -> SubError("pe", e.inner)
      [] e.tag = "CommandLineCopy" -> NoSource
      [] e.tag = "CommandLineOverflow" -> NoSource
      [] e.tag = "InvalidKernelStartAddress" -> NoSource
      [] e.tag = "MemoryOverflow" -> NoSource

\* ------------------------------------------------------------ load_cmdline
CmdIdle ==
    /\ guest_addr = 0
    /\ cmdline = <<>>
    /\ pc = "idle"
    /\ end = None
    /\ result = "none"
    /\ steps = <<>>

ErrIdle ==
    /\ arch = "x86_64"
    /\ sub = NoSource
    /\ err = NoError
    /\ wrapped = {}

LoadIdle ==
    /\ variant = "elf"
    /\ lpc = "idle"
    /\ image = [valid |-> TRUE, kind |-> 1, addr |-> 0, size |-> 1]
    /\ kernel_offset = None
    /\ highmem_start_address = None
    /\ placement = None
    /\ lresult = NoResult

\* Guest memory is handed in by the caller: any layout, holding whatever was
\* put there before (a uniform fill stands for the earlier content).
MemInit ==
    /\ regions \in Layouts
    /\ \E f \in Bytes : mem = [a \in Addrs |-> IF IsMapped(regions, a) THEN f ELSE 0]
    /\ mem_before = mem

Init == MemInit /\ CmdIdle /\ ErrIdle /\ LoadIdle

\* The caller invokes load_cmdline(guest_mem, guest_addr, cmdline).
Call ==
    /\ pc = "idle"
    /\ \E a \in Addrs, c \in Cmdlines :
          /\ guest_addr' = a
          /\ cmdline' = c
    /\ pc' = "len"
    /\ mem_before' = mem
    /\ steps' = <<>>
    /\ UNCHANGED <<regions, mem, end, result, errvars, loadvars>>

\* The length check without its early return for the empty command line.
CheckLenNoEarlyReturn ==
    /\ pc = "len"
    /\ steps' = Append(steps, "len")
    /\ pc' = "add"
    /\ UNCHANGED <<memvars, guest_addr, cmdline, end, result, errvars, loadvars>>

\* Lines 215-218: let len = ...; if len == 0 { return Ok(()) }
CheckLen ==
    /\ pc = "len"
    /\ steps' = Append(steps, "len")
    /\ IF Len(cmdline) = 0
       THEN /\ result' = "Ok"
            /\ pc' = "done"
       ELSE /\ pc' = "add"
            /\ UNCHANGED result
    /\ UNCHANGED <<memvars, guest_addr, cmdline, end, errvars, loadvars>>

\* Lines 220-222: checked_add(len as u64 + 1).ok_or(CommandLineOverflow)?
CheckedAdd ==
    /\ pc = "add"
    /\ steps' = Append(steps, "add")
    /\ end' = checked_add(guest_addr, Len(cmdline) + 1)
    /\ IF end' = None
       THEN /\ result' = "CommandLineOverflow"
            /\ pc' = "done"
       ELSE /\ pc' = "bound"
            /\ UNCHANGED result
    /\ UNCHANGED <<memvars, guest_addr, cmdline, errvars, loadvars>>

\* The bound check placed after the copy instead of before it.
CheckBoundAfterWrite ==
    /\ pc = "bound"
    /\ steps' = Append(steps, "bound")
    /\ mem' = write_slice(regions, mem, cmdline, guest_addr).mem
    /\ IF EndExceeds(end, regions)
       THEN /\ result' = "CommandLineOverflow"
            /\ pc' = "done"
       ELSE /\ pc' = "write"
            /\ UNCHANGED result
    /\ UNCHANGED <<regions, mem_before, guest_addr, cmdline, end, errvars, loadvars>>

\* Lines 223-225: if end > guest_mem.last_addr() { return Err(CommandLineOverflow) }
CheckBound ==
    /\ pc = "bound"
    /\ steps' = Append(steps, "bound")
    /\ IF EndExceeds(end, regions)
       THEN /\ result' = "CommandLineOverflow"
            /\ pc' = "done"
       ELSE /\ pc' = "write"
            /\ UNCHANGED result
    /\ UNCHANGED <<memvars, guest_addr, cmdline, end, errvars, loadvars>>

\* The copy with the null terminator appended to the bytes written.
WriteCmdlineWithNul ==
    /\ pc = "write"
    /\ steps' = Append(steps, "write")
    /\ LET w == write_slice(regions, mem, Append(cmdline, 0), guest_addr)
       IN /\ mem' = w.mem
          /\ result' = IF w.ok THEN "Ok" ELSE "CommandLineCopy"
    /\ pc' = "done"
    /\ UNCHANGED <<regions, mem_before, guest_addr, cmdline, end, errvars, loadvars>>

\* Lines 227-231: write_slice(bytes, guest_addr).map_err(|_| CommandLineCopy)?; Ok(())
WriteCmdline ==
    /\ pc = "write"
    /\ steps' = Append(steps, "write")
    /\ LET w == write_slice(regions, mem, cmdline, guest_addr)
       IN /\ mem' = w.mem
          /\ result' = IF w.ok THEN "Ok" ELSE "CommandLineCopy"
    /\ pc' = "done"
    /\ UNCHANGED <<regions, mem_before, guest_addr, cmdline, end, errvars, loadvars>>

Next == Call \/ CheckLen \/ CheckedAdd \/ CheckBound \/ WriteCmdline

Spec == Init /\ [][Next]_vars

\* ------------------------------------------------------- Error conversions
MemIdle ==
    /\ regions = <<Region(0, NumAddrs - 1)>>
    /\ mem = [a \in Addrs |-> 0]
    /\ mem_before = mem

InitError ==
    /\ MemIdle /\ CmdIdle /\ LoadIdle
    /\ arch \in Archs
    /\ sub = NoSource
    /\ err = NoError
    /\ wrapped = {}

\* A format loader's sub-error is turned into the top-level Error (the `?`
\* operator calling From::from).
ConvertSubError ==
    /\ \E f \in Formats(arch), k \in SubKinds :
          /\ sub' = SubError(f, k)
          /\ err' = from(SubError(f, k))
          /\ wrapped' = wrapped \cup {[sub |-> SubError(f, k), err |-> from(SubError(f, k))]}
    /\ UNCHANGED <<arch, memvars, cmdvars, loadvars>>

\* One of the generic variants is constructed.
RaiseGeneric ==
    /\ \E t \in GenericTags : err' = Generic(t)
    /\ sub' = NoSource
    /\ UNCHANGED <<arch, wrapped, memvars, cmdvars, loadvars>>

NextError == ConvertSubError \/ RaiseGeneric

SpecError == InitError /\ [][NextError]_vars

\* ------------------------------------------------------ KernelLoader::load
\* Largest kernel image, in bytes.
MaxImage == 3

\* Kernel images: a header that is structurally invalid in one of the
\* format's ways, or a valid header declaring a load address, with the bytes
\* to load.
Images ==
    {[valid |-> FALSE, kind |-> k, addr |-> 0, size |-> 1] : k \in SubKinds}
    \cup {[valid |-> TRUE, kind |-> 1, addr |-> a, size |-> n] : a \in Addrs, n \in 1..MaxImage}

KernelOffsets == {None, 0, 1, MaxAddr}
HighmemStarts == {None, NumAddrs \div 4}

ImageBytes(img) == [k \in 1..img.size |-> 1]

Ok(load_addr, end_off) == [ok |-> TRUE, kernel_load |-> load_addr, kernel_end |-> end_off]
Err(e) == [ok |-> FALSE, error |-> e]

\* The address the image is placed at: the ELF variant biases the declared
\* address by kernel_offset, the bzImage and PE variants load at
\* kernel_offset when it is given.
load_address(v, off, declared) ==
    IF off = None THEN declared
    ELSE IF v = "elf" THEN checked_add(off, declared)
    ELSE off

\* A capacity check whose end address wraps modulo the address width.
PlacementFitsWrapping(regs, a, n) ==
    \A x \in a..(((a + n) % NumAddrs) - 1) : IsMapped(regs, x)

\* The image fits: address + size does not wrap and every byte of
\* [address, address + size) is guest memory.
PlacementFits(regs, a, n) ==
    /\ checked_add(a, n) # None
    /\ \A x \in a..(a + n - 1) : IsMapped(regs, x)

InitLoad ==
    /\ MemInit /\ CmdIdle /\ LoadIdle
    /\ arch \in Archs
    /\ sub = NoSource
    /\ err = NoError
    /\ wrapped = {}

\* The caller invokes <variant>::load(guest_mem, kernel_offset, kernel_image,
\* highmem_start_address).
LoadCall ==
    /\ lpc = "idle"
    /\ \E v \in Formats(arch), img \in Images, off \in KernelOffsets, hm \in HighmemStarts :
          /\ variant' = v
          /\ image' = img
          /\ kernel_offset' = off
          /\ highmem_start_address' = hm
    /\ lpc' = "parse"
    /\ mem_before' = mem
    /\ UNCHANGED <<regions, mem, placement, lresult, cmdvars, errvars>>

\* Header validation: a structurally invalid header fails with the format's
\* own error, wrapped.
ParseHeader ==
    /\ lpc = "parse"
    /\ IF image.valid
       THEN /\ lpc' = "place"
            /\ UNCHANGED <<lresult, sub, err, wrapped>>
       ELSE /\ sub' = SubError(variant, image.kind)
            /\ err' = from(sub')
            /\ wrapped' = wrapped \cup {[sub |-> sub', err |-> err']}
            /\ lresult' = Err(err')
            /\ lpc' = "done"
    /\ UNCHANGED <<arch, memvars, cmdvars, variant, image, kernel_offset,
                   highmem_start_address, placement>>

\* The load address: InvalidKernelStartAddress when it cannot be represented
\* or lies below the start of high memory.
ComputePlacement ==
    /\ lpc = "place"
    /\ LET a == load_address(variant, kernel_offset, image.addr)
       IN IF a = None \/ (highmem_start_address # None /\ a < highmem_start_address)
          THEN /\ lresult' = Err(Generic("InvalidKernelStartAddress"))
               /\ lpc' = "done"
               /\ UNCHANGED placement
          ELSE /\ placement' = a
               /\ lpc' = "fit"
               /\ UNCHANGED lresult
    /\ UNCHANGED <<memvars, cmdvars, errvars, variant, image, kernel_offset,
                   highmem_start_address>>

\* The capacity check: MemoryOverflow when the image does not fit.
CheckCapacity ==
    /\ lpc = "fit"
    /\ IF PlacementFits(regions, placement, image.size)
       THEN /\ lpc' = "copy"
            /\ UNCHANGED lresult
       ELSE /\ lresult' = Err(Generic("MemoryOverflow"))
            /\ lpc' = "done"
    /\ UNCHANGED <<memvars, cmdvars, errvars, variant, image, kernel_offset,
                   highmem_start_address, placement>>

\* The copy of the image into guest memory, and the Boot Result.
CopyImage ==
    /\ lpc = "copy"
    /\ mem' = write_slice(regions, mem, ImageBytes(image), placement).mem
    /\ lresult' = Ok(placement, placement + image.size)
    /\ lpc' = "done"
    /\ UNCHANGED <<regions, mem_before, cmdvars, errvars, variant, image, kernel_offset,
                   highmem_start_address, placement>>

NextLoad == LoadCall \/ ParseHeader \/ ComputePlacement \/ CheckCapacity \/ CopyImage

SpecLoad == InitLoad /\ [][NextLoad]_vars

\* --------------------------------------------------- claims: load_cmdline
Returned == pc = "done"
L == Len(cmdline)
\* guest memory is one contiguous region starting at address 0, of size S
OneRegionFromZero == Len(regions) = 1 /\ regions[1].start = 0
S == regions[1].size
Unchanged(a) == mem[a] = mem_before[a]
HasHole == \E a \in guest_addr..(guest_addr + L - 1) : ~IsMapped(regions, a)
\* both overflow checks pass on the call's inputs (plain integer arithmetic)
ChecksPass == guest_addr + L + 1 <= MaxAddr /\ guest_addr + L + 1 <= last_addr(regions)

\* C1 (as claimed; the empty command line is the subject of C3): on one
\* contiguous region of size S from address 0, a call with a command line of
\* L > 0 bytes returns Ok if and only if guest_addr + L + 1 <= S.
C1_OkIffFits ==
    (Returned /\ OneRegionFromZero /\ L > 0)
        => ((result = "Ok") <=> (guest_addr + L + 1 <= S))

\* C2 (as claimed): after an Ok call with a command line of L > 0 bytes,
\* reading L + 1 bytes at guest_addr yields the command line followed by a
\* null byte, whatever the memory held before.
C2_RoundTrip ==
    (Returned /\ result = "Ok" /\ L > 0)
        => LET r == read_slice(regions, mem, guest_addr, L + 1)
           IN r.ok /\ r.bytes = Append(cmdline, 0)

\* C3: a call with the empty command line returns Ok at every guest_addr,
\* also beyond the end of guest memory, and changes no byte of guest memory.
C3_EmptyIsNoOp ==
    (Returned /\ L = 0) => (result = "Ok" /\ mem = mem_before)

C3_Witness ==
    Returned /\ L = 0 /\ guest_addr > last_addr(regions) /\ result = "Ok"

\* C4: when guest_addr + L + 1 exceeds the largest address value (L > 0), the
\* call fails with CommandLineOverflow; no wrapped end address is produced.
C4_AddOverflowRejected ==
    (Returned /\ L > 0 /\ guest_addr + L + 1 > MaxAddr)
        => (result = "CommandLineOverflow" /\ end = None)

C4_Witness ==
    /\ Returned /\ L > 0 /\ guest_addr + L + 1 > MaxAddr
    /\ (guest_addr + L + 1) % NumAddrs <= last_addr(regions)
    /\ result = "CommandLineOverflow"

\* C5: whenever the call returns CommandLineOverflow, guest memory equals the
\* guest memory before the call.
C5_OverflowLeavesMemory ==
    (Returned /\ result = "CommandLineOverflow") => mem = mem_before

C5_Witness ==
    /\ Returned /\ result = "CommandLineOverflow"
    /\ end # None
    /\ IsMapped(regions, guest_addr)
    /\ mem_before[guest_addr] # cmdline[1]

\* C8: an Ok call with L > 0 writes exactly the L bytes of the command line
\* at [guest_addr, guest_addr + L); every other byte, the one at
\* guest_addr + L reserved for the terminator included, is unchanged.
C8_WritesExactlyLen ==
    (Returned /\ result = "Ok" /\ L > 0)
        => /\ \A k \in 1..L : mem[guest_addr + k - 1] = cmdline[k]
           /\ \A a \in Addrs : (a < guest_addr \/ a >= guest_addr + L) => Unchanged(a)

C8_Witness ==
    /\ Returned /\ result = "Ok" /\ L > 0
    /\ mem_before[guest_addr + L] # 0
    /\ mem[guest_addr + L] = mem_before[guest_addr + L]
    /\ mem # mem_before

\* C9: when both overflow checks pass but [guest_addr, guest_addr + L) holds
\* an unmapped address, the call returns CommandLineCopy; the bytes modified
\* are a prefix of the command line at guest_addr and nothing outside
\* [guest_addr, guest_addr + L) is modified.
C9_CopyFailure ==
    (Returned /\ L > 0 /\ ChecksPass /\ HasHole)
        => /\ result = "CommandLineCopy"
           /\ \E k \in 0..(L - 1) :
                 /\ \A j \in 1..k : mem[guest_addr + j - 1] = cmdline[j]
                 /\ \A a \in Addrs : (a < guest_addr \/ a >= guest_addr + k) => Unchanged(a)

C9_Witness ==
    /\ Returned /\ L > 0 /\ ChecksPass /\ HasHole
    /\ result = "CommandLineCopy"
    /\ mem # mem_before

\* C10: every call ends with Ok, CommandLineOverflow or CommandLineCopy; its
\* steps run in the order length check, checked addition, bound check, write;
\* the write is attempted at most once and only when every check passed, so
\* CommandLineCopy is never returned when an overflow check fails; and every
\* call that starts returns: it takes at most these four steps, and until it
\* has returned its next step can always be taken.
C10_Outcome ==
    /\ steps \in {<<>>, <<"len">>, <<"len", "add">>, <<"len", "add", "bound">>,
                  <<"len", "add", "bound", "write">>}
    /\ Returned => result \in {"Ok", "CommandLineOverflow", "CommandLineCopy"}
    /\ (steps # <<>> /\ steps[Len(steps)] = "write") => (L > 0 /\ ChecksPass)
    /\ mem # mem_before => (steps # <<>> /\ steps[Len(steps)] = "write")
    /\ (Returned /\ result = "CommandLineCopy") => (L > 0 /\ ChecksPass)
    /\ pc \in {"len", "add", "bound", "write"}
          => ENABLED (CheckLen \/ CheckedAdd \/ CheckBound \/ WriteCmdline)
    /\ steps = <<>> => pc \in {"idle", "len"}
    /\ steps = <<"len">> => pc \in {"add", "done"}
    /\ steps = <<"len", "add">> => pc \in {"bound", "done"}
    /\ steps = <<"len", "add", "bound">> => pc \in {"write", "done"}
    /\ steps = <<"len", "add", "bound", "write">> => pc = "done"

C10_Witness ==
    /\ Returned /\ result = "CommandLineCopy"
    /\ steps = <<"len", "add", "bound", "write">>


\* ------------------------------------------------------------ claims: Error
\* the variant of Error that belongs to a format
TagOf(f) == CASE f = "bzimage" -> "Bzimage" [] f = "elf" -> "Elf" [] f = "pe" -> "Pe"

\* C6: wrapping a format sub-error e yields exactly the matching variant
\* Bzimage(e), Elf(e) or Pe(e), whose source() is e; two different sub-errors
\* never convert to equal errors; the generic variants have no source.
C6_LosslessConversion ==
    /\ \A p \in wrapped :
          /\ p.err = [tag |-> TagOf(p.sub.format), inner |-> p.sub.kind]
          /\ source(p.err) = p.sub
    /\ \A p, q \in wrapped : p.sub # q.sub => p.err # q.err
    /\ err.tag \in GenericTags => source(err) = NoSource

C6_Witness ==
    /\ \E p, q \in wrapped : p.sub.format # q.sub.format /\ p.sub.kind = q.sub.kind
    /\ err.tag \in GenericTags

\* ------------------------------------------------------------- claims: load
\* the computed placement does not fit (plain integer arithmetic)
NoFit ==
    \/ placement + image.size > MaxAddr
    \/ \E x \in placement..(placement + image.size - 1) : ~IsMapped(regions, x)

====
